---- MODULE Spec2Model ----
(***************************************************************************)
(* The GMRQ cross-validation sweep of examples/GMRQ-Model-Selection.ipynb: *)
(* a K-fold partition of the trajectory indices, a nested loop over the    *)
(* candidate state counts and the folds that fits and scores one shared    *)
(* model, the per-candidate median of the score records, and the argmax    *)
(* of the median test score.                                               *)
(*                                                                         *)
(* The notebook fixes ten trajectories, n_folds=5 and eight candidates;    *)
(* here the trajectory count, the fold count and the candidate list are    *)
(* inputs drawn from bounded sets.  A trajectory is an opaque unit and is  *)
(* identified with its index.  The estimator is opaque: every score call   *)
(* returns some value of Scores.  Scores are even integers, so that the    *)
(* mean of the two middle values that np.median takes for an even count    *)
(* is exact.  KFold, groupby, np.median and argmax are library calls and   *)
(* are modelled by what sklearn.cross_validation, pandas and numpy do.     *)
(***************************************************************************)
EXTENDS Integers, Sequences, FiniteSets, TLC

\* ---- bounds -------------------------------------------------------------
MaxTraj == 3          \* len(trajectories) ranges over 0..MaxTraj
MaxFolds == 3         \* n_folds ranges over 0..MaxFolds
MaxCandidates == 2    \* len(n_states) ranges over 0..MaxCandidates
MaxBins == 2          \* candidate values range over 1..MaxBins
MaxScore == 1         \* scores range over {0, 2, .., 2*MaxScore}
MaxWork == 4          \* only sweeps with len(n_states) * len(trajectories) <= MaxWork

\* NDGrid(n_bins_per_feature=2, ...) is the library default of the pipeline's
\* grid step until set_params overrides it.
DefaultBins == 2

Scores == {2 * i : i \in 0..MaxScore}
BinValues == 1..MaxBins

RECURSIVE SeqsUpTo(_, _)
SeqsUpTo(S, n) ==
    IF n = 0 THEN {<<>>}
    ELSE LET shorter == SeqsUpTo(S, n - 1)
         IN  shorter \cup {Append(s, x) : s \in {t \in shorter : Len(t) = n - 1}, x \in S}

VARIABLES
    ntraj,        \* len(trajectories)
    n_folds,      \* the fold count handed to KFold
    n_states,     \* the candidate list
    pc,           \* position in the notebook
    error,        \* "none" or the exception that ended the run
    context,      \* what the exception carries about the sweep: <<>> or <<n, fold>>
    cv,           \* the KFold object: [n, n_folds]
    ni,           \* position of the outer loop in n_states (0 before the loop)
    n,            \* the outer loop variable
    cv_pos,       \* number of folds the enumerate(cv) iterator has yielded
    fold,         \* the inner loop variable
    train_index, test_index,
    train_data, test_data,
    model,        \* the shared pipeline: its parameter and what it was fitted on
    train_score, test_score,
    results,      \* the score records
    avgs,         \* the aggregated table, one row per group
    best_n, best_score,
    fits,         \* history: every fit call, in order
    train_src, test_src,   \* history: the fit each score was taken from, and the data scored
    prov          \* history: for each appended record, where its scores came from

vars == <<ntraj, n_folds, n_states, pc, error, context, cv, ni, n, cv_pos, fold,
          train_index, test_index, train_data, test_data, model,
          train_score, test_score, results, avgs, best_n, best_score,
          fits, train_src, test_src, prov>>

NoStamp == [fit_no |-> 0, param |-> 0, bins |-> 0, fit_data |-> {}, data |-> {}]

\* ---- KFold (sklearn.cross_validation) -------------------------------------

\* KFoldRaises with the upper check off by one
KFoldRaisesOffByOne(num, k) == k <= 1 \/ k > num + 1

\* KFoldRaises without the check against the number of samples
KFoldRaisesOnlySmall(num, k) == k <= 1

\* KFold.__init__ raises ValueError for n_folds <= 1 and for n_folds > n.
KFoldRaises(num, k) == k <= 1 \/ k > num

\* FoldSize without the remainder: every fold gets n // n_folds indices
FoldSizeNoRemainder(c, k) == c.n \div c.n_folds

\* fold_sizes = (n // n_folds) * ones(n_folds); fold_sizes[:n % n_folds] += 1
FoldSize(c, k) == (c.n \div c.n_folds) + (IF k < c.n % c.n_folds THEN 1 ELSE 0)

\* current: the start of fold k, the sum of the sizes of the folds before it
RECURSIVE FoldStart(_, _)
FoldStart(c, k) == IF k = 0 THEN 0 ELSE FoldStart(c, k - 1) + FoldSize(c, k - 1)

\* idxs[start:stop]
TestIndex(c, k) == {i \in 0..(c.n - 1) : FoldStart(c, k) <= i /\ i < FoldStart(c, k) + FoldSize(c, k)}

\* TrainIndex without the mask: every index is a training index
TrainIndexUnmasked(c, k) == 0..(c.n - 1)

\* train_index = ind[logical_not(test_mask)]
TrainIndex(c, k) == (0..(c.n - 1)) \ TestIndex(c, k)

\* ---- the sweep ------------------------------------------------------------

Init ==
    /\ ntraj \in 0..MaxTraj
    /\ n_folds \in 0..MaxFolds
    /\ n_states \in SeqsUpTo(BinValues, MaxCandidates)
    /\ Len(n_states) * ntraj <= MaxWork
    /\ pc = "kfold"
    /\ error = "none"
    /\ context = <<>>
    /\ cv = [n |-> 0, n_folds |-> 0]
    /\ ni = 0
    /\ n = 0
    /\ cv_pos = 0
    /\ fold = 0
    /\ train_index = {}
    /\ test_index = {}
    /\ train_data = {}
    /\ test_data = {}
    /\ model = [n_bins |-> DefaultBins, fit_no |-> 0, fit_bins |-> 0, fit_data |-> {}]
    /\ train_score = 0
    /\ test_score = 0
    /\ results = <<>>
    /\ avgs = <<>>
    /\ best_n = 0
    /\ best_score = 0
    /\ fits = <<>>
    /\ train_src = NoStamp
    /\ test_src = NoStamp
    /\ prov = <<>>

\* cv = KFold(len(trajectories), n_folds=...); results = []
MakeKFold ==
    /\ pc = "kfold"
    /\ IF KFoldRaises(ntraj, n_folds)
       THEN /\ pc' = "error"
            /\ error' = "ValueError"
            /\ UNCHANGED cv
       ELSE /\ pc' = "for_n"
            /\ cv' = [n |-> ntraj, n_folds |-> n_folds]
            /\ UNCHANGED error
    /\ UNCHANGED <<context, ntraj, n_folds, n_states, ni, n, cv_pos, fold,
                   train_index, test_index, train_data, test_data, model,
                   train_score, test_score, results, avgs, best_n, best_score,
                   fits, train_src, test_src, prov>>

\* for n in n_states:
ForNStates ==
    /\ pc = "for_n"
    /\ IF ni < Len(n_states)
       THEN /\ ni' = ni + 1
            /\ n' = n_states[ni + 1]
            /\ pc' = "set_params"
       ELSE /\ pc' = "dataframe"
            /\ UNCHANGED <<ni, n>>
    /\ UNCHANGED <<context, ntraj, n_folds, n_states, error, cv, cv_pos, fold,
                   train_index, test_index, train_data, test_data, model,
                   train_score, test_score, results, avgs, best_n, best_score,
                   fits, train_src, test_src, prov>>

\* model.set_params(grid__n_bins_per_feature=n)
SetParams ==
    /\ pc = "set_params"
    /\ model' = [model EXCEPT !.n_bins = n]
    /\ pc' = "enumerate"
    /\ UNCHANGED <<context, ntraj, n_folds, n_states, error, cv, ni, n, cv_pos, fold,
                   train_index, test_index, train_data, test_data,
                   train_score, test_score, results, avgs, best_n, best_score,
                   fits, train_src, test_src, prov>>

\* EnumerateCV over a one-shot iterator: the position is not reset
EnumerateCVExhausted ==
    /\ pc = "enumerate"
    /\ pc' = "for_fold"
    /\ UNCHANGED <<context, ntraj, n_folds, n_states, error, cv, ni, n, cv_pos, fold,
                   train_index, test_index, train_data, test_data, model,
                   train_score, test_score, results, avgs, best_n, best_score,
                   fits, train_src, test_src, prov>>

\* enumerate(cv): the for statement asks cv for a fresh iterator, which
\* starts at the first fold again for every candidate
EnumerateCV ==
    /\ pc = "enumerate"
    /\ cv_pos' = 0
    /\ pc' = "for_fold"
    /\ UNCHANGED <<context, ntraj, n_folds, n_states, error, cv, ni, n, fold,
                   train_index, test_index, train_data, test_data, model,
                   train_score, test_score, results, avgs, best_n, best_score,
                   fits, train_src, test_src, prov>>

\* ForFold over a partition that is drawn anew for every candidate: the
\* folds are handed out in an order that depends on the candidate
ForFoldRedrawn ==
    /\ pc = "for_fold"
    /\ IF cv_pos < cv.n_folds
       THEN /\ fold' = cv_pos
            /\ train_index' = TrainIndex(cv, (cv_pos + ni) % cv.n_folds)
            /\ test_index' = TestIndex(cv, (cv_pos + ni) % cv.n_folds)
            /\ cv_pos' = cv_pos + 1
            /\ pc' = "data"
       ELSE /\ pc' = "for_n"
            /\ UNCHANGED <<fold, train_index, test_index, cv_pos>>
    /\ UNCHANGED <<context, ntraj, n_folds, n_states, error, cv, ni, n,
                   train_data, test_data, model,
                   train_score, test_score, results, avgs, best_n, best_score,
                   fits, train_src, test_src, prov>>

\* for fold, (train_index, test_index) in enumerate(cv):
ForFold ==
    /\ pc = "for_fold"
    /\ IF cv_pos < cv.n_folds
       THEN /\ fold' = cv_pos
            /\ train_index' = TrainIndex(cv, cv_pos)
            /\ test_index' = TestIndex(cv, cv_pos)
            /\ cv_pos' = cv_pos + 1
            /\ pc' = "data"
       ELSE /\ pc' = "for_n"
            /\ UNCHANGED <<fold, train_index, test_index, cv_pos>>
    /\ UNCHANGED <<context, ntraj, n_folds, n_states, error, cv, ni, n,
                   train_data, test_data, model,
                   train_score, test_score, results, avgs, best_n, best_score,
                   fits, train_src, test_src, prov>>

\* train_data = [trajectories[i] for i in train_index]; test_data likewise
BuildData ==
    /\ pc = "data"
    /\ train_data' = {i \in 0..(ntraj - 1) : i \in train_index}
    /\ test_data' = {i \in 0..(ntraj - 1) : i \in test_index}
    /\ pc' = "fit"
    /\ UNCHANGED <<context, ntraj, n_folds, n_states, error, cv, ni, n, cv_pos, fold,
                   train_index, test_index, model,
                   train_score, test_score, results, avgs, best_n, best_score,
                   fits, train_src, test_src, prov>>

\* the state of the model after fit(data)
Fitted(m, data) ==
    [m EXCEPT !.fit_no = m.fit_no + 1, !.fit_bins = m.n_bins, !.fit_data = data]

\* Fit on all the trajectories instead of the training subset
FitAllData ==
    /\ pc = "fit"
    /\ model' = Fitted(model, train_data \cup test_data)
    /\ fits' = Append(fits, [ni |-> ni, n |-> model.n_bins, fold |-> fold,
                             data |-> train_data \cup test_data])
    /\ pc' = "score_train"
    /\ UNCHANGED <<context, ntraj, n_folds, n_states, error, cv, ni, n, cv_pos, fold,
                   train_index, test_index, train_data, test_data,
                   train_score, test_score, results, avgs, best_n, best_score,
                   train_src, test_src, prov>>

\* model.fit(train_data)
Fit ==
    /\ pc = "fit"
    /\ model' = Fitted(model, train_data)
    /\ fits' = Append(fits, [ni |-> ni, n |-> model.n_bins, fold |-> fold, data |-> train_data])
    /\ pc' = "score_train"
    /\ UNCHANGED <<context, ntraj, n_folds, n_states, error, cv, ni, n, cv_pos, fold,
                   train_index, test_index, train_data, test_data,
                   train_score, test_score, results, avgs, best_n, best_score,
                   train_src, test_src, prov>>

\* what a score of data is taken from: the model's parameter at the call,
\* the fit it carries (its number, its parameter, its data) and the data scored
Stamp(m, data) ==
    [fit_no |-> m.fit_no, param |-> m.n_bins, bins |-> m.fit_bins,
     fit_data |-> m.fit_data, data |-> data]

\* train_score = model.score(train_data)
ScoreTrain ==
    /\ pc = "score_train"
    /\ \E s \in Scores : train_score' = s
    /\ train_src' = Stamp(model, train_data)
    /\ pc' = "score_test"
    /\ UNCHANGED <<context, ntraj, n_folds, n_states, error, cv, ni, n, cv_pos, fold,
                   train_index, test_index, train_data, test_data, model,
                   test_score, results, avgs, best_n, best_score,
                   fits, test_src, prov>>

\* test_score = model.score(test_data)
ScoreTest ==
    /\ pc = "score_test"
    /\ \E s \in Scores : test_score' = s
    /\ test_src' = Stamp(model, test_data)
    /\ pc' = "append"
    /\ UNCHANGED <<context, ntraj, n_folds, n_states, error, cv, ni, n, cv_pos, fold,
                   train_index, test_index, train_data, test_data, model,
                   train_score, results, avgs, best_n, best_score,
                   fits, train_src, prov>>

\* FitRaises under a handler that leaves the loop and goes on to aggregate
FitRaisesSwallowed ==
    /\ pc = "fit"
    /\ fits' = Append(fits, [ni |-> ni, n |-> model.n_bins, fold |-> fold, data |-> train_data])
    /\ pc' = "dataframe"
    /\ UNCHANGED <<context, ntraj, n_folds, n_states, error, cv, ni, n, cv_pos, fold,
                   train_index, test_index, train_data, test_data, model,
                   train_score, test_score, results, avgs, best_n, best_score,
                   train_src, test_src, prov>>

\* model.fit(train_data) raises: no handler surrounds the call, so the
\* exception leaves the cell as the estimator raised it and the run ends
FitRaises ==
    /\ pc = "fit"
    /\ fits' = Append(fits, [ni |-> ni, n |-> model.n_bins, fold |-> fold, data |-> train_data])
    /\ pc' = "error"
    /\ error' = "EstimatorError"
    /\ context' = <<>>
    /\ UNCHANGED <<ntraj, n_folds, n_states, cv, ni, n, cv_pos, fold,
                   train_index, test_index, train_data, test_data, model,
                   train_score, test_score, results, avgs, best_n, best_score,
                   train_src, test_src, prov>>

\* model.score(train_data) raises
ScoreTrainRaises ==
    /\ pc = "score_train"
    /\ pc' = "error"
    /\ error' = "EstimatorError"
    /\ context' = <<>>
    /\ UNCHANGED <<ntraj, n_folds, n_states, cv, ni, n, cv_pos, fold,
                   train_index, test_index, train_data, test_data, model,
                   train_score, test_score, results, avgs, best_n, best_score,
                   fits, train_src, test_src, prov>>

\* model.score(test_data) raises
ScoreTestRaises ==
    /\ pc = "score_test"
    /\ pc' = "error"
    /\ error' = "EstimatorError"
    /\ context' = <<>>
    /\ UNCHANGED <<ntraj, n_folds, n_states, cv, ni, n, cv_pos, fold,
                   train_index, test_index, train_data, test_data, model,
                   train_score, test_score, results, avgs, best_n, best_score,
                   fits, train_src, test_src, prov>>

\* the dict handed to results.append
ScoreRecord ==
    [train_score |-> train_score, test_score |-> test_score, n_states |-> n, fold |-> fold]

\* AppendResult that inserts the record at the front
AppendResultAtFront ==
    /\ pc = "append"
    /\ results' = <<ScoreRecord>> \o results
    /\ prov' = <<[ni |-> ni, train_src |-> train_src, test_src |-> test_src]>> \o prov
    /\ pc' = "for_fold"
    /\ UNCHANGED <<context, ntraj, n_folds, n_states, error, cv, ni, n, cv_pos, fold,
                   train_index, test_index, train_data, test_data, model,
                   train_score, test_score, avgs, best_n, best_score,
                   fits, train_src, test_src>>

\* results.append({...})
AppendResult ==
    /\ pc = "append"
    /\ results' = Append(results, ScoreRecord)
    /\ prov' = Append(prov, [ni |-> ni, train_src |-> train_src, test_src |-> test_src])
    /\ pc' = "for_fold"
    /\ UNCHANGED <<context, ntraj, n_folds, n_states, error, cv, ni, n, cv_pos, fold,
                   train_index, test_index, train_data, test_data, model,
                   train_score, test_score, avgs, best_n, best_score,
                   fits, train_src, test_src>>

\* ---- aggregation (pandas / numpy) ------------------------------------------

\* the group keys in ascending order: groupby sorts the keys (sort=True)
RECURSIVE SortedKeys(_)
SortedKeys(S) ==
    IF S = {} THEN <<>>
    ELSE LET least == CHOOSE x \in S : \A y \in S : x <= y
         IN  <<least>> \o SortedKeys(S \ {least})

GroupKeys(rs) == {rs[i].n_states : i \in DOMAIN rs}

\* the rows of one group, in the order they have in the frame
Group(rs, key) == SelectSeq(rs, LAMBDA r : r.n_states = key)

TrainColumn(rs) == [i \in DOMAIN rs |-> rs[i].train_score]
TestColumn(rs) == [i \in DOMAIN rs |-> rs[i].test_score]

\* x put at its place in the ascending sequence s
RECURSIVE Insert(_, _)
Insert(x, s) ==
    IF s = <<>> THEN <<x>>
    ELSE IF x <= Head(s) THEN <<x>> \o s
    ELSE <<Head(s)>> \o Insert(x, Tail(s))

RECURSIVE Sorted(_)
Sorted(s) == IF s = <<>> THEN <<>> ELSE Insert(Head(s), Sorted(Tail(s)))

\* median that takes the lower of the two middle values for an even count
medianLowerMiddle(col) ==
    LET s == Sorted(col)
        len == Len(s)
    IN  s[(len + 1) \div 2]

\* median of the column as it stands, without sorting it
medianUnsorted(col) ==
    LET len == Len(col)
    IN  IF len % 2 = 1 THEN col[(len + 1) \div 2]
        ELSE (col[len \div 2] + col[(len \div 2) + 1]) \div 2

\* np.median: the middle value of the sorted column, or the mean of the two
\* middle values for an even count (exact here, the scores being even)
median(col) ==
    LET s == Sorted(col)
        len == Len(s)
    IN  IF len % 2 = 1 THEN s[(len + 1) \div 2]
        ELSE (s[len \div 2] + s[(len \div 2) + 1]) \div 2

\* results.groupby('n_states').aggregate(np.median).drop('fold', axis=1)
Aggregate(rs) ==
    LET keys == SortedKeys(GroupKeys(rs))
    IN  [i \in 1..Len(keys) |->
            [n_states |-> keys[i],
             train_score |-> median(TrainColumn(Group(rs, keys[i]))),
             test_score |-> median(TestColumn(Group(rs, keys[i])))]]

\* ArgMax that keeps the last row holding the maximum
ArgMaxLast(table) ==
    LET last == CHOOSE i \in DOMAIN table :
                    /\ \A j \in DOMAIN table : table[j].test_score <= table[i].test_score
                    /\ \A j \in (i + 1)..Len(table) : table[j].test_score < table[i].test_score
    IN  table[last].n_states

\* ArgMax over the train_score column
ArgMaxTrainColumn(table) ==
    LET first == CHOOSE i \in DOMAIN table :
                    /\ \A j \in DOMAIN table : table[j].train_score <= table[i].train_score
                    /\ \A j \in 1..(i - 1) : table[j].train_score < table[i].train_score
    IN  table[first].n_states

\* avgs['test_score'].argmax(): the index label of the first row that holds
\* the maximum (Series.argmax is idxmax in the pandas the notebook targets)
ArgMax(table) ==
    LET first == CHOOSE i \in DOMAIN table :
                    /\ \A j \in DOMAIN table : table[j].test_score <= table[i].test_score
                    /\ \A j \in 1..(i - 1) : table[j].test_score < table[i].test_score
    IN  table[first].n_states

\* avgs.loc[label, 'test_score']
Loc(table, label) ==
    LET row == CHOOSE i \in DOMAIN table : table[i].n_states = label
    IN  table[row].test_score

\* results = pd.DataFrame(results)
MakeDataFrame ==
    /\ pc = "dataframe"
    /\ results' = [i \in 1..Len(results) |-> results[i]]
    /\ pc' = "groupby"
    /\ UNCHANGED <<context, ntraj, n_folds, n_states, error, cv, ni, n, cv_pos, fold,
                   train_index, test_index, train_data, test_data, model,
                   train_score, test_score, avgs, best_n, best_score,
                   fits, train_src, test_src, prov>>

\* avgs = results.groupby('n_states').aggregate(np.median).drop('fold', axis=1)
\* A frame built from an empty list has no 'n_states' column: KeyError.
GroupByMedian ==
    /\ pc = "groupby"
    /\ IF Len(results) = 0
       THEN /\ pc' = "error"
            /\ error' = "KeyError"
            /\ UNCHANGED avgs
       ELSE /\ avgs' = Aggregate(results)
            /\ pc' = "argmax"
            /\ UNCHANGED error
    /\ UNCHANGED <<context, ntraj, n_folds, n_states, cv, ni, n, cv_pos, fold,
                   train_index, test_index, train_data, test_data, model,
                   train_score, test_score, results, best_n, best_score,
                   fits, train_src, test_src, prov>>

\* best_n = avgs['test_score'].argmax()
SelectBest ==
    /\ pc = "argmax"
    /\ best_n' = ArgMax(avgs)
    /\ pc' = "best_score"
    /\ UNCHANGED <<context, ntraj, n_folds, n_states, error, cv, ni, n, cv_pos, fold,
                   train_index, test_index, train_data, test_data, model,
                   train_score, test_score, results, avgs, best_score,
                   fits, train_src, test_src, prov>>

\* best_score = avgs.loc[best_n, 'test_score']
ReadBestScore ==
    /\ pc = "best_score"
    /\ best_score' = Loc(avgs, best_n)
    /\ pc' = "done"
    /\ UNCHANGED <<context, ntraj, n_folds, n_states, error, cv, ni, n, cv_pos, fold,
                   train_index, test_index, train_data, test_data, model,
                   train_score, test_score, results, avgs, best_n,
                   fits, train_src, test_src, prov>>

Next ==
    \/ MakeKFold
    \/ ForNStates
    \/ SetParams
    \/ EnumerateCV
    \/ ForFold
    \/ BuildData
    \/ Fit
    \/ ScoreTrain
    \/ ScoreTest
    \/ FitRaises
    \/ ScoreTrainRaises
    \/ ScoreTestRaises
    \/ AppendResult
    \/ MakeDataFrame
    \/ GroupByMedian
    \/ SelectBest
    \/ ReadBestScore

Spec == Init /\ [][Next]_vars
\* ---- properties -----------------------------------------------------------

Indices == 0..(ntraj - 1)
Folds == 0..(n_folds - 1)
Positions == 1..Len(n_states)

\* the KFold object exists
HasCV == pc \notin {"kfold", "error"} \/ (pc = "error" /\ error # "ValueError")

\* the nested loop has run to its end: the state it ends in, and the states
\* the run ends in after it
SweepComplete ==
    \/ pc \in {"dataframe", "done"}
    \/ (pc = "error" /\ error = "KeyError")

\* the KFold object has just been constructed
Constructed == pc = "for_n" /\ ni = 0

\* C1: for a fold count K >= 2 and a trajectory count N >= K, the partition
\* is constructed, and it has exactly K test sets (each is a set of its own,
\* being non-empty), which are pairwise disjoint and whose union is {0..N-1};
\* the sweep's iterator yields these K test sets, one per fold, and no more.
C1_KFoldPartition ==
    (n_folds >= 2 /\ ntraj >= n_folds /\ pc # "kfold") =>
        /\ HasCV
        /\ cv = [n |-> ntraj, n_folds |-> n_folds]
        /\ cv_pos <= n_folds
        /\ (pc = "for_n" /\ ni > 0) => cv_pos = n_folds
        /\ pc = "data" => (fold = cv_pos - 1 /\ test_index = TestIndex(cv, fold))
        /\ Constructed =>
              /\ \A j \in Folds : TestIndex(cv, j) # {}
              /\ \A j, k \in Folds : j # k => TestIndex(cv, j) \cap TestIndex(cv, k) = {}
              /\ UNION {TestIndex(cv, k) : k \in Folds} = Indices

\* all folds of a partition with folds of unequal size have been yielded
C1_Witness ==
    /\ pc = "for_fold"
    /\ ntraj = 3
    /\ n_folds = 2
    /\ cv_pos = 2
    /\ test_index = {2}

\* the loop body holds the index sets and the data of the current fold
InFold == pc \in {"fit", "score_train", "score_test", "append"}

\* C2: in every fold the train index set is the complement of the test index
\* set; every trajectory index is in the test set of exactly one fold and in
\* the train set of each of the other K-1 folds; no trajectory is in both
\* train_data and test_data of a fold.
C2_TrainIsComplement ==
    /\ Constructed =>
          \A i \in Indices :
              /\ Cardinality({k \in Folds : i \in TestIndex(cv, k)}) = 1
              /\ Cardinality({k \in Folds : i \in TrainIndex(cv, k)}) = n_folds - 1
              /\ \A k \in Folds : (i \in TrainIndex(cv, k)) <=> (i \notin TestIndex(cv, k))
    /\ train_data \cap test_data = {}
    /\ train_index \cap test_index = {}
    /\ InFold =>
          /\ train_index = Indices \ test_index
          /\ train_data = Indices \ test_data
          /\ train_data = train_index
          /\ test_data = test_index

\* the data of the second fold of three trajectories is built
C2_Witness ==
    /\ pc = "fit"
    /\ ntraj = 3
    /\ fold = 1
    /\ train_data = {0, 1}
    /\ test_data = {2}

\* the records written for position p of the candidate list and fold k
RecordsOf(p, k) ==
    {r \in DOMAIN results :
        prov[r].ni = p /\ results[r].fold = k /\ results[r].n_states = n_states[p]}

\* the fit calls made for position p of the candidate list and fold k
FitsOf(p, k) == {f \in DOMAIN fits : fits[f].ni = p /\ fits[f].fold = k}

\* C3: when the sweep completes for candidate list H and fold count K, the
\* record collection holds exactly |H| x K records, exactly one for each
\* (position in H, fold id) pair, and each pair was fitted exactly once.
C3_OneRecordPerPair ==
    SweepComplete =>
        /\ Len(results) = Len(n_states) * n_folds
        /\ Len(fits) = Len(n_states) * n_folds
        /\ \A p \in Positions : \A k \in Folds :
              /\ Cardinality(RecordsOf(p, k)) = 1
              /\ Cardinality(FitsOf(p, k)) = 1

\* a sweep over two candidates and two folds has completed
C3_Witness ==
    /\ pc = "dataframe"
    /\ Len(n_states) = 2
    /\ n_folds = 2
    /\ Len(results) = 4

\* C4: for every record (h, k): the r-th record comes from the r-th fit; at
\* that fit and at both score calls the model's parameter was h; the fit was
\* on fold k's training subset only; the train score was taken on that
\* training subset and the test score on fold k's test subset, both from that
\* same fit, before any later set_params or fit.
C4_ScoresFromOwnFit ==
    /\ Len(prov) = Len(results)
    /\ Len(fits) >= Len(results)
    /\ pc = "for_fold" =>
        \A r \in DOMAIN results :
          LET h == results[r].n_states
              k == results[r].fold
              own(data) == [fit_no |-> r, param |-> h, bins |-> h,
                            fit_data |-> TrainIndex(cv, k), data |-> data]
          IN  /\ n_states[prov[r].ni] = h
              /\ fits[r] = [ni |-> prov[r].ni, n |-> h, fold |-> k,
                            data |-> TrainIndex(cv, k)]
              /\ prov[r].train_src = own(TrainIndex(cv, k))
              /\ prov[r].test_src = own(TestIndex(cv, k))
    /\ pc = "score_test" => train_src.fit_no = Len(fits)
    /\ pc = "append" => train_src.fit_no = Len(fits) /\ test_src.fit_no = Len(fits)

\* a record of the second candidate has been appended, after the model was
\* fitted for the first candidate
C4_Witness ==
    /\ pc = "for_fold"
    /\ ni = 2
    /\ n_states[1] # n_states[2]
    /\ Len(results) = n_folds + 1
\* the records have just been aggregated
Aggregated == pc = "argmax"

\* the records that carry the value h
RowsOf(h) == {i \in DOMAIN results : results[i].n_states = h}

TrainOf(i) == results[i].train_score
TestOf(i) == results[i].test_score

\* the t-th smallest of the values F(i), i in I, found by counting
OrderStat(F(_), I, t) ==
    LET AtMost(v) == Cardinality({i \in I : F(i) <= v})
    IN  CHOOSE v \in {F(i) : i \in I} :
            /\ AtMost(v) >= t
            /\ \A i \in I : AtMost(F(i)) >= t => v <= F(i)

\* m is the median of the values F(i), i in I: the middle order statistic,
\* or the mean of the two middle ones
IsMedian(F(_), I, m) ==
    LET len == Cardinality(I)
    IN  2 * m = OrderStat(F, I, (len + 1) \div 2) + OrderStat(F, I, (len \div 2) + 1)

\* the median test score of the records that carry h
MedianTest(h) ==
    LET I == RowsOf(h)
        len == Cardinality(I)
        twice == OrderStat(TestOf, I, (len + 1) \div 2) + OrderStat(TestOf, I, (len \div 2) + 1)
    IN  twice \div 2

\* the median test score of the candidate at each position of H
MedianTests == [p \in Positions |-> MedianTest(n_states[p])]

\* C5: aggregation produces exactly one row per distinct hyperparameter value
\* present in the records, and the row's train_score and test_score are the
\* medians, field by field, of all the records that carry the value.
C5_OneMedianRowPerValue ==
    Aggregated =>
        /\ Len(avgs) = Cardinality({results[i].n_states : i \in DOMAIN results})
        /\ {avgs[a].n_states : a \in DOMAIN avgs} = {results[i].n_states : i \in DOMAIN results}
        /\ \A a, b \in DOMAIN avgs : avgs[a].n_states = avgs[b].n_states => a = b
        /\ \A a \in DOMAIN avgs :
              /\ IsMedian(TrainOf, RowsOf(avgs[a].n_states), avgs[a].train_score)
              /\ IsMedian(TestOf, RowsOf(avgs[a].n_states), avgs[a].test_score)

\* two candidates over two folds are aggregated, and a median lies strictly
\* between the two scores of its group
C5_Witness ==
    /\ pc = "argmax"
    /\ Len(results) = 4
    /\ Len(avgs) = 2
    /\ results[1].test_score = 0
    /\ results[2].test_score = 2
    /\ avgs[1].n_states = results[1].n_states
    /\ avgs[1].test_score = 1

\* C6: the selected h* is a candidate whose median test score is greater than
\* or equal to that of every other candidate, and best_score is the median
\* test score of h*.
C6_BestIsMaximal ==
    pc = "done" =>
        LET meds == MedianTests
        IN  \E b \in Positions :
                /\ n_states[b] = best_n
                /\ \A p \in Positions : meds[p] <= meds[b]
                /\ best_score = meds[b]
                /\ IsMedian(TestOf, RowsOf(best_n), best_score)

\* the second of two candidates is selected, with a strictly better median
C6_Witness ==
    /\ pc = "done"
    /\ Len(n_states) = 2
    /\ n_states[1] < n_states[2]
    /\ best_n = n_states[2]
    /\ MedianTest(n_states[1]) < best_score
\* the positions in H of the candidates whose median test score is maximal
MaximalPositions ==
    LET meds == MedianTests
    IN  {p \in Positions : \A q \in Positions : meds[q] <= meds[p]}

\* the first position in H of a candidate with the maximal median test score
FirstMaximal ==
    LET top == MaximalPositions
    IN  CHOOSE p \in top : \A q \in top : p <= q

Ascending == \A p, q \in Positions : p < q => n_states[p] <= n_states[q]

Permuted(rs, f) == [i \in DOMAIN rs |-> rs[f[i]]]

\* C8: grouping by hyperparameter and reducing by median is independent of
\* the order of the records: every permutation of the record collection
\* aggregates to the same median train and test score for every value.
C8_AggregateOrderIndependent ==
    Aggregated =>
        \A f \in Permutations(DOMAIN results) :
            LET shuffled == Aggregate(Permuted(results, f))
            IN  /\ Len(shuffled) = Len(avgs)
                /\ \A a \in DOMAIN avgs :
                      /\ shuffled[a].n_states = avgs[a].n_states
                      /\ shuffled[a].train_score = avgs[a].train_score
                      /\ shuffled[a].test_score = avgs[a].test_score

\* a group of three records is aggregated whose test scores are not in
\* ascending order and whose middle record does not hold the median
C8_Witness ==
    /\ pc = "argmax"
    /\ Len(results) = 3
    /\ Len(avgs) = 1
    /\ results[1].test_score = 2
    /\ results[2].test_score = 0
    /\ results[3].test_score = 2
    /\ avgs[1].test_score = 2

\* C9: when the fold count K is greater than the number of trajectories N,
\* the sweep raises a configuration error at the KFold construction and does
\* not proceed: no fit, no score and no record append takes place.
C9_TooManyFoldsRaises ==
    n_folds > ntraj =>
        /\ pc \in {"kfold", "error"}
        /\ pc = "error" => error = "ValueError"
        /\ fits = <<>>
        /\ model.fit_no = 0
        /\ train_src = NoStamp
        /\ test_src = NoStamp
        /\ results = <<>>
        /\ prov = <<>>

\* three folds were asked for two trajectories and the construction raised
C9_Witness ==
    /\ pc = "error"
    /\ error = "ValueError"
    /\ n_folds = 3
    /\ ntraj = 2
    /\ Len(n_states) > 0

\* K folds of N trajectories would leave some fold without training data
SomeTrainEmpty ==
    /\ n_folds >= 1
    /\ \E k \in Folds : TrainIndex([n |-> ntraj, n_folds |-> n_folds], k) = {}

\* C10: fit is never invoked with an empty training subset; whenever K >= N
\* would leave some fold's training subset empty, the sweep fails with a
\* configuration error instead of fitting and recording scores.
C10_NoFitOnEmptyTrain ==
    /\ \A f \in DOMAIN fits : fits[f].data # {}
    /\ pc = "fit" => train_data # {}
    /\ (n_folds >= ntraj /\ SomeTrainEmpty) =>
          /\ pc \in {"kfold", "error"}
          /\ pc = "error" => error = "ValueError"
          /\ fits = <<>>
          /\ results = <<>>

\* two folds of a single trajectory, whose first fold would train on
\* nothing, were refused
C10_Witness ==
    /\ pc = "error"
    /\ error = "ValueError"
    /\ ntraj = 1
    /\ n_folds = 2
    /\ SomeTrainEmpty
    /\ Len(n_states) > 0

\* C11 as stated: an empty candidate list is refused before the sweep: the
\* run never completes a sweep with zero records, and never fails later, in
\* the aggregation.
C11_EmptyCandidatesFailFast ==
    Len(n_states) = 0 =>
        /\ pc \notin {"dataframe", "groupby", "argmax", "best_score", "done"}
        /\ error # "KeyError"

\* C12 as stated: an error raised by fit or score for the pair (h, k) reaches
\* the caller with h and k attached; it ends the run, and no later fit runs.
C12_EstimatorErrorCarriesPair ==
    error = "EstimatorError" =>
        /\ pc = "error"
        /\ context = <<n, fold>>
        /\ Len(fits) \in {Len(results), Len(results) + 1}

\* C14: the record collection is append-only: every step leaves it as it is
\* or appends one record at the end, and the records present keep their
\* values, so the collection at any step is a prefix of every later one.
C14_ResultsAppendOnly ==
    [][/\ Len(results') \in {Len(results), Len(results) + 1}
       /\ \A i \in DOMAIN results : results'[i] = results[i]
       /\ Len(results') = Len(results) + 1 =>
             (pc = "append" /\ results'[Len(results')] = ScoreRecord)]_vars

\* a second record, different from the first, has been appended
C14_Witness ==
    /\ pc = "for_fold"
    /\ Len(results) = 2
    /\ results[1].test_score # results[2].test_score

\* C15: grouping, median reduction and the selection of h* run only in a
\* state where all |H| x K records are present: never over a partial record
\* collection, and never after a fit or a score has failed mid-sweep.
C15_AggregationIsBarrier ==
    /\ (pc \in {"groupby", "argmax", "best_score", "done"} \/ avgs # <<>>) =>
          /\ error = "none"
          /\ Len(results) = Len(n_states) * n_folds
          /\ Len(fits) = Len(results)
    /\ error = "EstimatorError" =>
          /\ pc = "error"
          /\ avgs = <<>>
          /\ best_n = 0

\* the records of a whole sweep over two candidates have been aggregated
C15_Witness ==
    /\ pc = "best_score"
    /\ error = "none"
    /\ Len(n_states) = 2
    /\ Len(results) = 2 * n_folds
    /\ Len(avgs) = 2

\* C17: the fold partition is the same for every candidate: any two records
\* of the same fold id were fitted on the same train index set and scored on
\* the same train and test index sets, whatever their hyperparameter values.
C17_SameFoldsForEveryCandidate ==
    pc = "for_fold" =>
        \A r1, r2 \in DOMAIN results :
            results[r1].fold = results[r2].fold =>
                /\ prov[r1].train_src.fit_data = prov[r2].train_src.fit_data
                /\ prov[r1].train_src.data = prov[r2].train_src.data
                /\ prov[r1].test_src.data = prov[r2].test_src.data
                /\ fits[r1].data = fits[r2].data

\* two candidates with different values have both been swept over the same
\* two folds
C17_Witness ==
    /\ pc = "for_fold"
    /\ Len(results) = 4
    /\ results[1].n_states # results[3].n_states
    /\ results[1].fold = results[3].fold
    /\ prov[1].test_src.data = prov[3].test_src.data
    /\ prov[1].test_src.data # prov[2].test_src.data
====
